---- MODULE Spec2Model ----
(***************************************************************************)
(* A model of src/src/functions.py of EvolutionaryANN: the crossover       *)
(* operators de_crossover and de_crossover_classic, the mutation operator  *)
(* mutationFunc_W_B, the scheduler mutation_rate and the rollout           *)
(* simulate_agent.                                                         *)
(*                                                                         *)
(* Numbers.  A weight or bias is an integer counting tenths (10 is 1.0).   *)
(* The initial weights are whole numbers (multiples of 10) and every       *)
(* random draw of [0, 1) is a number of tenths 0..9, so that the products  *)
(* F * (b - c) and u * (b - a) of the crossovers are exact in tenths.      *)
(* A mutation rate is a rational [num, den] with den > 0.                  *)
(*                                                                         *)
(* Arrays.  A weight matrix (2-d ndarray) is a sequence of rows, a bias    *)
(* vector (1-d ndarray) a sequence of numbers.  np.ravel of a C-contiguous *)
(* array is a view: a write through it is a write to the array.           *)
(***************************************************************************)
EXTENDS Integers, Sequences, FiniteSets, Bags, TLC

VARIABLES
    agent,          \* the agent an operator is called on (agent, nn1): [coefs, intercepts]
    randomAgents,   \* the three other agents of a crossover (nn2 is randomAgents[1])
    pre,            \* the arguments as they were when the last call began
    newcoefs,       \* the first list of arrays the last crossover returned
    newintercepts,  \* the second list of arrays the last crossover returned
    call,           \* the last call of an operator and the draws the claims speak of
    lastCall,       \* mutation_rate: the last call, [score, goal, rate]
    prevCall,       \* mutation_rate: the call before it
    pc,             \* simulate_agent: the position in the function
    env,            \* simulate_agent: the environment, [resets, steps, over]
    score,          \* simulate_agent: the local score
    done,           \* simulate_agent: the local done
    frames,         \* simulate_agent: the number of frames appended
    rewards,        \* simulate_agent: the rewards env.step returned, in order
    flags,          \* simulate_agent: the arguments [render, savetofile]
    returned        \* simulate_agent: the value returned

evolveVars == <<agent, randomAgents, pre, newcoefs, newintercepts, call>>
rateVars == <<lastCall, prevCall>>
simVars == <<pc, env, score, done, frames, rewards, flags, returned>>
vars == <<evolveVars, rateVars, simVars>>

(***************************************************************************)
(* Arrays: isMat says whether el is a weight matrix or a bias vector       *)
(***************************************************************************)
RECURSIVE Concat(_)
Concat(rows) == IF rows = <<>> THEN <<>> ELSE Head(rows) \o Concat(Tail(rows))

\* ndarray.shape
Shape(el, isMat) == IF isMat THEN <<Len(el), Len(el[1])>> ELSE <<Len(el)>>

\* np.ravel: the elements in row-major order
Ravel(el, isMat) == IF isMat THEN Concat(el) ELSE el

\* ndarray.reshape(shape) of a flat array
Reshape(flat, shape) ==
    IF Len(shape) = 2
    THEN [r \in 1..shape[1] |-> [c \in 1..shape[2] |-> flat[(r - 1) * shape[2] + c]]]
    ELSE flat

\* k tenths of x
Tenths(k, x) == (k * x) \div 10

(***************************************************************************)
(* The population: create_new_network gives every agent the same topology  *)
(* (observation size, hidden width, number of actions)                     *)
(***************************************************************************)
Topologies == {<<3, 1, 1>>, <<1, 3, 1>>, <<2, 2, 1>>}

PopSize == 4

\* The weight of agent a at position g of its parameters: whole numbers,
\* different inside one array, some of them shared between agents.
Entry(a, g) == 10 * ((a * a + (a + 1) * g) % 7)

Matrix(a, rows, cols, off) ==
    [r \in 1..rows |-> [c \in 1..cols |-> Entry(a, off + (r - 1) * cols + c)]]

Vector(a, n, off) == [c \in 1..n |-> Entry(a, off + c)]

create_new_network(top, a) ==
    [coefs |-> << Matrix(a, top[1], top[2], 0),
                  Matrix(a, top[2], top[3], top[1] * top[2] + top[2]) >>,
     intercepts |-> << Vector(a, top[2], top[1] * top[2]),
                       Vector(a, top[3], top[1] * top[2] + top[2] + top[2] * top[3]) >>]

initialise_population(top) == [a \in 1..PopSize |-> create_new_network(top, a)]

InitEvolve ==
    \E top \in Topologies :
      \E t \in 1..PopSize :
        \* the caller's three other agents: those that follow the target
        LET d == [x \in 1..3 |-> ((t - 1 + x) % PopSize) + 1] IN
          /\ agent = initialise_population(top)[t]
          /\ randomAgents = [x \in 1..3 |-> initialise_population(top)[d[x]]]
          /\ pre = [agent |-> agent, randomAgents |-> randomAgents]
          /\ newcoefs = <<>>
          /\ newintercepts = <<>>
          /\ call = [name |-> "none"]

(***************************************************************************)
(* de_crossover(nn1, nn2)                                                  *)
(***************************************************************************)
\* np.random.uniform(0, 1, n): n draws of [0, 1), in tenths
UDraws == {0, 5, 9}

\* coef1Flat + uniform * (coef2Flat - coef1Flat), one draw u[j] for each element
BlendFromSecond(flat1, flat2, u) ==
    [j \in 1..Len(flat1) |-> flat2[j] + Tenths(u[j], flat2[j] - flat1[j])]
Blend(flat1, flat2, u) ==
    [j \in 1..Len(flat1) |-> flat1[j] + Tenths(u[j], flat2[j] - flat1[j])]

\* The arrays one tensor of the child may be, over the draws
BlendTensor(el1, el2, isMat) ==
    { Reshape(Blend(Ravel(el1, isMat), Ravel(el2, isMat), u), Shape(el1, isMat)) :
        u \in [1..Len(Ravel(el1, isMat)) -> UDraws] }

de_crossover ==
    /\ call.name = "none"
    /\ \E c1 \in BlendTensor(agent.coefs[1], randomAgents[1].coefs[1], TRUE),
          i1 \in BlendTensor(agent.intercepts[1], randomAgents[1].intercepts[1], FALSE),
          c2 \in BlendTensor(agent.coefs[2], randomAgents[1].coefs[2], TRUE),
          i2 \in BlendTensor(agent.intercepts[2], randomAgents[1].intercepts[2], FALSE) :
         /\ newcoefs' = <<c1, c2>>
         /\ newintercepts' = <<i1, i2>>
    /\ pre' = [agent |-> agent, randomAgents |-> randomAgents]
    /\ call' = [name |-> "de_crossover"]
    /\ UNCHANGED <<agent, randomAgents, rateVars, simVars>>

(***************************************************************************)
(* de_crossover_classic(agent, randomAgents)                               *)
(***************************************************************************)
\* Crossover probability, in tenths
CR == 9
\* Differential weight, in tenths
F == 8

\* np.random.uniform(): a draw of [0, 1), in tenths
RDraws == {0, 9}

\* np.random.random_integers(0, n): an integer of the closed interval [0, n]
random_integers(low, high) == low..high

\* The loop over j of the flattened array: agentFlat[j] is overwritten where
\* r < CR or j == R (j counts from 0 in the code, from 1 here)
ClassicFlat(agentFlat, flat1, flat2, flat3, R, r) ==
    [j \in 1..Len(agentFlat) |->
        IF r[j] < CR \/ j - 1 = R
        THEN flat1[j] + Tenths(F, flat2[j] - flat3[j])
        ELSE agentFlat[j]]

\* One tensor: [R, out] over the draws; R is drawn from len(el), the number
\* of rows of a matrix
ClassicTensor(el, el1, el2, el3, isMat) ==
    { [R |-> R,
       out |-> Reshape(ClassicFlat(Ravel(el, isMat), Ravel(el1, isMat), Ravel(el2, isMat),
                                   Ravel(el3, isMat), R, r), Shape(el, isMat))] :
        R \in random_integers(0, Len(el)),
        r \in [1..Len(Ravel(el, isMat)) -> RDraws] }

\* Whether a write through np.ravel(agent.coefs_[i]) reaches the agent's array:
\* np.ravel of a C-contiguous array returns a view
RavelIsView == TRUE

de_crossover_classic ==
    /\ call.name = "none"
    /\ \E c1 \in ClassicTensor(agent.coefs[1], randomAgents[1].coefs[1],
                               randomAgents[2].coefs[1], randomAgents[3].coefs[1], TRUE),
          i1 \in ClassicTensor(agent.intercepts[1], randomAgents[1].intercepts[1],
                               randomAgents[2].intercepts[1], randomAgents[3].intercepts[1], FALSE),
          c2 \in ClassicTensor(agent.coefs[2], randomAgents[1].coefs[2],
                               randomAgents[2].coefs[2], randomAgents[3].coefs[2], TRUE),
          i2 \in ClassicTensor(agent.intercepts[2], randomAgents[1].intercepts[2],
                               randomAgents[2].intercepts[2], randomAgents[3].intercepts[2], FALSE) :
         /\ newcoefs' = <<c1.out, c2.out>>
         /\ newintercepts' = <<i1.out, i2.out>>
         /\ agent' = IF RavelIsView
                     THEN [coefs |-> <<c1.out, c2.out>>, intercepts |-> <<i1.out, i2.out>>]
                     ELSE agent
         /\ call' = [name |-> "de_crossover_classic", R |-> <<c1.R, i1.R, c2.R, i2.R>>]
    /\ pre' = [agent |-> agent, randomAgents |-> randomAgents]
    /\ UNCHANGED <<randomAgents, rateVars, simVars>>

(***************************************************************************)
(* The caller's assignment of a crossover's result to the agent:           *)
(* agent.coefs_, agent.intercepts_ = newcoefs, newintercepts               *)
(***************************************************************************)
assign_child ==
    /\ call.name = "de_crossover_classic"
    /\ agent' = [coefs |-> newcoefs, intercepts |-> newintercepts]
    /\ pre' = [agent |-> agent', randomAgents |-> randomAgents]
    /\ call' = [name |-> "assign"]
    /\ UNCHANGED <<randomAgents, newcoefs, newintercepts, rateVars, simVars>>

(***************************************************************************)
(* mutationFunc_W_B(agent, mutation_rate, method)                          *)
(***************************************************************************)
Methods == {"swap", "scramble", "inverse", "gaussian", "uniform"}

\* The mutation rates tried, in tenths: mutation_rate gives a negative rate
\* once the score exceeds the goal
Rates == {-5, 0, 5, 10}

\* random.random(): a draw of [0, 1), in tenths
CoinDraws == {0, 5, 9}

\* np.random.normal(0, 2), in tenths
NormalDraws == {-20, 20}

\* if (random.random() < mutation_rate)
CoinLeq(c, rate) == c <= rate
Coin(c, rate) == c < rate

\* int(random.random() * len(el))
IndexDraws(n) == 0..(n - 1)

\* swappedRow, el[random1] = el[random1], swappedRow: the right side is built
\* first; then the local name is rebound and el[random1] receives what
\* swappedRow was, the row (a view of el) or number at the loop's position k
SwapRow(el, k, random1) == [el EXCEPT ![random1 + 1] = el[k]]

\* x[i], x[j] = x[j], x[i] of random.shuffle, at positions p and q: numbers
\* are exchanged; the rows of a matrix are views, so row p receives row q and
\* row q then receives the view of row p, which by now holds row q
ShuffleExchange(el, p, q, isMat) ==
    IF isMat THEN [el EXCEPT ![p] = el[q]]
    ELSE [el EXCEPT ![p] = el[q], ![q] = el[p]]

\* random.shuffle(x) of the view x = el[lo:hi], from index i down to 1:
\* for i in reversed(range(1, len(x))): j = randbelow(i + 1); exchange
RECURSIVE ShuffleFrom(_, _, _, _)
ShuffleFrom(el, lo, i, isMat) ==
    IF i < 1 THEN {el}
    ELSE UNION { ShuffleFrom(ShuffleExchange(el, lo + i + 1, lo + j + 1, isMat), lo, i - 1, isMat) :
                   j \in 0..i }

Scramble(el, random1, random2, isMat) == ShuffleFrom(el, random1, random2 - random1 - 1, isMat)

\* el[random1:random2] = el[random1:random2][::-1]: NumPy copies the right
\* side when it overlaps the target, so the slice is reversed
Inverse(el, random1, random2) ==
    [p \in 1..Len(el) |->
        IF random1 < p /\ p <= random2 THEN el[random1 + 1 + random2 - p] ELSE el[p]]

\* The else branch: swappedRow += noise, swappedRow = draw, inner += noise and
\* inner = draw rebind the loop's local name to a new number (np.float64 is
\* immutable); nothing is stored into el
Perturb(el, k, method, isMat) ==
    LET local(x) == IF method = "gaussian"
                    THEN {x + n : n \in NormalDraws}
                    ELSE {u : u \in CoinDraws}
        swappedRow == IF isMat THEN UNION {local(el[k][c]) : c \in 1..Len(el[k])}
                      ELSE local(el[k])
    IN  IF swappedRow = {} THEN {} ELSE {el}

\* The body of the loop at row k: the arrays el may be after it
MutateRow(el, k, rate, method, isMat) ==
    { el : c \in {d \in CoinDraws : ~Coin(d, rate)} }
    \cup
    UNION { LET random1 == IF d1 > d2 THEN d2 ELSE d1
                random2 == IF d1 > d2 THEN d1 ELSE d2
            IN  CASE method = "swap" -> {SwapRow(el, k, random1)}
                  [] method = "scramble" -> Scramble(el, random1, random2, isMat)
                  [] method = "inverse" -> {Inverse(el, random1, random2)}
                  [] OTHER -> Perturb(el, k, method, isMat) :
              c \in {d \in CoinDraws : Coin(d, rate)},
              d1 \in IndexDraws(Len(el)), d2 \in IndexDraws(Len(el)) }

\* for swappedRow in el, from row k on
RECURSIVE MutateFrom(_, _, _, _, _)
MutateFrom(el, k, rate, method, isMat) ==
    IF k > Len(el) THEN {el}
    ELSE UNION { MutateFrom(e, k + 1, rate, method, isMat) :
                   e \in MutateRow(el, k, rate, method, isMat) }

mutationFunc_W_B ==
    /\ call.name \in {"none", "assign"}
    /\ \E rate \in Rates, method \in Methods :
         \E c1 \in MutateFrom(agent.coefs[1], 1, rate, method, TRUE),
            c2 \in MutateFrom(agent.coefs[2], 1, rate, method, TRUE),
            i1 \in MutateFrom(agent.intercepts[1], 1, rate, method, FALSE),
            i2 \in MutateFrom(agent.intercepts[2], 1, rate, method, FALSE) :
           /\ agent' = [coefs |-> <<c1, c2>>, intercepts |-> <<i1, i2>>]
           /\ call' = [name |-> "mutationFunc_W_B", rate |-> rate, method |-> method,
                       after |-> call.name]
    /\ pre' = [agent |-> agent, randomAgents |-> randomAgents]
    /\ UNCHANGED <<randomAgents, newcoefs, newintercepts, rateVars, simVars>>

IdleEvolve ==
    /\ agent = create_new_network(<<1, 1, 1>>, 1)
    /\ randomAgents = <<>>
    /\ pre = [agent |-> agent, randomAgents |-> randomAgents]
    /\ newcoefs = <<>>
    /\ newintercepts = <<>>
    /\ call = [name |-> "none"]

(***************************************************************************)
(* mutation_rate(score, goal)                                              *)
(***************************************************************************)
MaxScore == 3

Scores == (-MaxScore)..MaxScore

\* score / goal, goal # 0: the quotient as a fraction with a positive denominator
DivFloor(s, g) == [num |-> s \div g, den |-> 1]
Div(s, g) == IF g > 0 THEN [num |-> s, den |-> g] ELSE [num |-> -s, den |-> -g]

\* 1 - q
OneMinusClamped(q) == [num |-> IF q.den - q.num < 0 THEN 0 ELSE q.den - q.num, den |-> q.den]
OneMinus(q) == [num |-> q.den - q.num, den |-> q.den]

\* return(1 - (score/goal)); the division raises for goal = 0
mutation_rate(s, g) ==
    IF g = 0 THEN [score |-> s, goal |-> g, valid |-> FALSE, rate |-> [num |-> 0, den |-> 1]]
    ELSE [score |-> s, goal |-> g, valid |-> TRUE, rate |-> OneMinus(Div(s, g))]

NoRate == [score |-> 0, goal |-> 0, valid |-> FALSE, rate |-> [num |-> 0, den |-> 1]]

IdleRate == lastCall = NoRate /\ prevCall = NoRate

call_mutation_rate ==
    /\ \E s \in Scores, g \in Scores :
         /\ lastCall' = mutation_rate(s, g)
         /\ prevCall' = lastCall
    /\ UNCHANGED <<evolveVars, simVars>>

(***************************************************************************)
(* simulate_agent(agent, env, render, savetofile, filename)                *)
(***************************************************************************)
\* The longest episode of the environment
MaxSteps == 5

\* The rewards env.step may return
Rewards == {-1, 0, 1}

NewEnv == [resets |-> 0, steps |-> 0, over |-> FALSE, stepsAfterOver |-> 0, renders |-> 0]

IdleSim ==
    /\ pc = "idle" /\ env = NewEnv
    /\ score = 0 /\ done = FALSE /\ frames = 0 /\ rewards = <<>>
    /\ flags = [render |-> FALSE, savetofile |-> FALSE] /\ returned = 0

InitSim ==
    /\ pc = "start" /\ env = NewEnv
    /\ score = 0 /\ done = FALSE /\ frames = 0 /\ rewards = <<>>
    /\ flags \in [render : BOOLEAN, savetofile : BOOLEAN] /\ returned = 0

\* observation = env.reset(); score = 0; done = False; frames = []
sim_reset ==
    /\ pc = "start"
    /\ env' = [env EXCEPT !.resets = @ + 1, !.steps = 0, !.over = FALSE]
    /\ score' = 0
    /\ done' = FALSE
    /\ frames' = 0
    /\ pc' = "loop"
    /\ UNCHANGED <<rewards, flags, returned, evolveVars, rateVars>>

\* while not done
LoopTest(d) == ~d

\* score += reward
AccumulateLast(sc, reward) == reward
Accumulate(sc, reward) == sc + reward

\* One turn of the loop: predict, env.step, score += reward, the renders.
\* The environment picks the reward and whether the episode is over; an
\* episode is over after MaxSteps steps at the latest.
sim_step ==
    /\ pc = "loop"
    /\ LoopTest(done)
    /\ \E reward \in Rewards, d \in BOOLEAN :
         /\ (env.steps + 1 >= MaxSteps) => d
         /\ env' = [env EXCEPT !.steps = @ + 1,
                               !.stepsAfterOver = IF env.over THEN @ + 1 ELSE @,
                               !.over = env.over \/ d,
                               !.renders = @ + (IF flags.savetofile THEN 1 ELSE 0)
                                             + (IF flags.render THEN 1 ELSE 0)]
         /\ score' = Accumulate(score, reward)
         /\ done' = d
         /\ rewards' = Append(rewards, reward)
         /\ frames' = IF flags.savetofile THEN frames + 1 ELSE frames
    /\ UNCHANGED <<pc, flags, returned, evolveVars, rateVars>>

\* The loop ends; save_frames_as_gif if savetofile; return score
sim_return ==
    /\ pc = "loop"
    /\ ~LoopTest(done)
    /\ returned' = score
    /\ pc' = "returned"
    /\ UNCHANGED <<env, score, done, frames, rewards, flags, evolveVars, rateVars>>

(***************************************************************************)
(* Specifications                                                          *)
(***************************************************************************)
Init == InitEvolve /\ IdleRate /\ IdleSim

Next == de_crossover \/ de_crossover_classic \/ assign_child \/ mutationFunc_W_B

Spec == Init /\ [][Next]_vars

InitRate == IdleEvolve /\ IdleRate /\ IdleSim

NextRate == call_mutation_rate

SpecRate == InitRate /\ [][NextRate]_vars

InitSimulate == IdleEvolve /\ IdleRate /\ InitSim

NextSimulate == sim_reset \/ sim_step \/ sim_return

SpecSimulate == InitSimulate /\ [][NextSimulate]_vars

(***************************************************************************)
(* What the claims speak of                                                *)
(***************************************************************************)
\* The four arrays of an agent, flattened, in the order coefs_[0],
\* intercepts_[0], coefs_[1], intercepts_[1]
FlatArrays(coefs, intercepts) ==
    << Ravel(coefs[1], TRUE), Ravel(intercepts[1], FALSE),
       Ravel(coefs[2], TRUE), Ravel(intercepts[2], FALSE) >>

\* The four arrays of an agent as sequences of entries: the rows of a weight
\* matrix, the numbers of a bias vector
Arrays(a) == << a.coefs[1], a.intercepts[1], a.coefs[2], a.intercepts[2] >>

Occurrences(el, x) == Cardinality({p \in DOMAIN el : el[p] = x})

\* el2 holds exactly the entries of el1, each as often
SameEntries(el1, el2) ==
    /\ Len(el1) = Len(el2)
    /\ \A p \in DOMAIN el1 : Occurrences(el1, el1[p]) = Occurrences(el2, el1[p])

Least(x, y) == IF x < y THEN x ELSE y
Greatest(x, y) == IF x < y THEN y ELSE x

Crossed == call.name \in {"de_crossover", "de_crossover_classic"}
Mutated == call.name = "mutationFunc_W_B"

\* C1: neither crossover modifies an input: after the call the target and the
\* three donors hold the values they held before it.
C1_CrossoverLeavesInputs ==
    Crossed => agent = pre.agent /\ randomAgents = pre.randomAgents

\* C2: in de_crossover_classic the forced index R of each of the four arrays
\* is a valid index of the flattened array, and the element at R of the
\* output is donor1 + F * (donor2 - donor3).
C2_ForcedIndexIsSet ==
    call.name = "de_crossover_classic" =>
      LET out == FlatArrays(newcoefs, newintercepts)
          d1 == FlatArrays(pre.randomAgents[1].coefs, pre.randomAgents[1].intercepts)
          d2 == FlatArrays(pre.randomAgents[2].coefs, pre.randomAgents[2].intercepts)
          d3 == FlatArrays(pre.randomAgents[3].coefs, pre.randomAgents[3].intercepts)
      IN  \A t \in 1..4 :
            /\ 0 <= call.R[t]
            /\ call.R[t] < Len(out[t])
            /\ out[t][call.R[t] + 1] =
                 d1[t][call.R[t] + 1] + Tenths(F, d2[t][call.R[t] + 1] - d3[t][call.R[t] + 1])

\* C3: a mutation at rate 1 with 'gaussian' or 'uniform' writes every number
\* of the agent: with 'gaussian' (the noise is never 0) every number differs
\* from its value before the call, with 'uniform' every number is a fresh draw.
C3_RateOneWritesAll ==
    (Mutated /\ call.rate = 10 /\ call.method \in {"gaussian", "uniform"}) =>
      LET now == FlatArrays(agent.coefs, agent.intercepts)
          was == FlatArrays(pre.agent.coefs, pre.agent.intercepts)
      IN  \A t \in 1..4 : \A j \in DOMAIN now[t] :
            IF call.method = "gaussian"
            THEN now[t][j] # was[t][j]
            ELSE now[t][j] \in CoinDraws

\* C4: a mutation at rate 0 leaves every array of the agent as it was, for
\* every method; so the result of de_crossover_classic, assigned to an agent
\* and mutated at rate 0, is the crossover's output.
C4_RateZeroLeavesAgent ==
    (Mutated /\ call.rate = 0) =>
      /\ agent = pre.agent
      /\ call.after = "assign" =>
           agent.coefs = newcoefs /\ agent.intercepts = newintercepts

C4_Witness ==
    /\ Mutated /\ call.rate = 0 /\ call.method = "swap" /\ call.after = "assign"
    /\ agent.coefs = newcoefs
    /\ \E t \in 1..4 : \E p, q \in DOMAIN Arrays(agent)[t] : Arrays(agent)[t][p] # Arrays(agent)[t][q]

\* C5: 'swap' only exchanges two positions of an array: every array holds
\* after the call the entries it held before, each as often.
C5_SwapKeepsEntries ==
    (Mutated /\ call.method = "swap") =>
      \A t \in 1..4 : SameEntries(Arrays(pre.agent)[t], Arrays(agent)[t])

\* C6: 'scramble' and 'inverse' only rearrange entries: every array is after
\* the call a permutation of its entries before the call.
C6_RearrangeKeepsEntries ==
    (Mutated /\ call.method \in {"scramble", "inverse"}) =>
      \A t \in 1..4 : SameEntries(Arrays(pre.agent)[t], Arrays(agent)[t])

\* C10: every element of every array de_crossover returns is a + u * (b - a)
\* for a u of [0, 1] and the parents' elements a and b, so it lies between a
\* and b inclusive; the arrays returned have the shapes of the parents' arrays.
C10_ChildBetweenParents ==
    call.name = "de_crossover" =>
      LET a == FlatArrays(pre.agent.coefs, pre.agent.intercepts)
          b == FlatArrays(pre.randomAgents[1].coefs, pre.randomAgents[1].intercepts)
          child == FlatArrays(newcoefs, newintercepts)
      IN  /\ Len(newcoefs) = 2 /\ Len(newintercepts) = 2
          /\ \A i \in 1..2 :
               /\ Len(newcoefs[i]) = Len(pre.agent.coefs[i])
               /\ \A r \in DOMAIN newcoefs[i] :
                    Len(newcoefs[i][r]) = Len(pre.agent.coefs[i][r])
               /\ Len(newintercepts[i]) = Len(pre.agent.intercepts[i])
          /\ \A t \in 1..4 : \A j \in DOMAIN a[t] :
               /\ Least(a[t][j], b[t][j]) <= child[t][j]
               /\ child[t][j] <= Greatest(a[t][j], b[t][j])
               /\ \E u \in 0..10 : 10 * (child[t][j] - a[t][j]) = u * (b[t][j] - a[t][j])

C10_Witness ==
    /\ call.name = "de_crossover"
    /\ LET a == FlatArrays(pre.agent.coefs, pre.agent.intercepts)
           b == FlatArrays(pre.randomAgents[1].coefs, pre.randomAgents[1].intercepts)
           child == FlatArrays(newcoefs, newintercepts)
       IN  /\ \E j \in DOMAIN a[1] : a[1][j] < child[1][j] /\ child[1][j] < b[1][j]
           /\ \E t \in 1..4 : \E j \in DOMAIN a[t] : b[t][j] < child[t][j] /\ child[t][j] < a[t][j]
           /\ Len(newcoefs[1]) = 2 /\ Len(newcoefs[1][1]) = 2

RatLess(p, q) == p.num * q.den < q.num * p.den

RECURSIVE Sum(_)
Sum(seq) == IF seq = <<>> THEN 0 ELSE Head(seq) + Sum(Tail(seq))

\* What C7 says of the last call, and of the call before it when both have
\* the same goal: decreasing in score, non-negative up to the goal, negative
\* beyond it
RateShape ==
    /\ lastCall.score <= lastCall.goal => lastCall.rate.num >= 0
    /\ lastCall.score > lastCall.goal => lastCall.rate.num < 0
    /\ (prevCall.valid /\ prevCall.goal = lastCall.goal /\ prevCall.score < lastCall.score)
         => RatLess(lastCall.rate, prevCall.rate)

\* C7 as stated: for every non-zero goal mutation_rate decreases as score
\* grows, is non-negative while score <= goal and negative once score > goal.
C7_AnyGoal == (lastCall.valid /\ lastCall.goal # 0) => RateShape

\* C7 as amended: for every positive goal mutation_rate decreases as score
\* grows, is non-negative while score <= goal and negative (not clamped)
\* once score > goal.
C7_PositiveGoal == (lastCall.valid /\ lastCall.goal > 0) => RateShape

C7_Witness ==
    /\ lastCall.valid /\ prevCall.valid /\ lastCall.goal > 0
    /\ prevCall.goal = lastCall.goal
    /\ prevCall.score < lastCall.score /\ lastCall.score > lastCall.goal
    /\ lastCall.rate.num < 0 /\ prevCall.rate.num > 0

\* C8: for every goal # 0 the call returns a rate, which is 1 - score/goal:
\* 0 for score = goal and 1 for score = 0.
C8_RateIsOneMinusQuotient ==
    /\ lastCall.goal # 0 => lastCall.valid
    /\ lastCall.valid =>
         /\ lastCall.rate.den > 0
         /\ lastCall.rate.num * lastCall.goal
              = (lastCall.goal - lastCall.score) * lastCall.rate.den
         /\ lastCall.score = lastCall.goal => lastCall.rate.num = 0
         /\ lastCall.score = 0 => lastCall.rate.num = lastCall.rate.den

C8_Witness ==
    /\ lastCall.valid /\ lastCall.score = lastCall.goal /\ lastCall.rate.num = 0
    /\ prevCall.valid /\ prevCall.score = 0 /\ prevCall.goal = lastCall.goal
    /\ prevCall.rate.num = prevCall.rate.den

\* C9: simulate_agent resets the environment once, steps it until the first
\* step that reports done and no further, and returns the sum of the rewards
\* of the steps taken; five steps of reward 1 with done on the fifth give 5.
C9_ScoreIsSumOfRewards ==
    /\ env.stepsAfterOver = 0
    /\ env.resets <= 1
    /\ env.steps = Len(rewards)
    /\ done = env.over
    /\ pc = "returned" =>
         /\ env.resets = 1
         /\ done
         /\ Len(rewards) >= 1
         /\ returned = Sum(rewards)
         /\ rewards = <<1, 1, 1, 1, 1>> => returned = 5

C9_Witness ==
    /\ pc = "returned" /\ rewards = <<1, 1, 1, 1, 1>> /\ returned = 5
    /\ env.steps = 5 /\ env.resets = 1

====
